---- MODULE Spec2Model ----
(***************************************************************************)
(* GitHub events tracker (src/app.py): the event store, the window         *)
(* selector, the interval aggregator, the feed fetcher and the poll        *)
(* scheduler.                                                              *)
(*                                                                         *)
(* Time is counted in ticks of 1/Resolution second since                   *)
(* 2026-11-01T00:00:00Z.  Timestamps are kept in the store as the text the *)
(* feed delivered (a tuple of ASCII codes); comparisons in SQL are made on *)
(* that text, as SQLite makes them.                                        *)
(***************************************************************************)
EXTENDS Integers, Sequences, FiniteSets, TLC

\* ---------------------------------------------------------------- bounds
Resolution   == 2   \* ticks per second (datetime has 10^6; the text keeps 6 digits)
MaxEventTick == 2   \* the feed's created_at lie in 0 .. MaxEventTick ticks
MaxClock     == 1   \* the clock advances at most this many ticks
MaxStore     == 3   \* direct insert calls stop at this many records
MaxBatch     == 1   \* events in one feed response
MaxFeedIds   == 1   \* distinct event ids the feed delivers
MaxTicks     == 2   \* timer ticks of the scheduler
MaxConfig    == 7   \* entries of the configuration list
\* MAX_EVENTS is 500 in src/app.py:28; the model scales it down
MAX_EVENTS   == 2

\* ------------------------------------------------------ program constants
MAX_REPOS == 5
MAX_DAYS  == 7
\* add_job(...) without max_instances: the scheduler's default of one
\* running instance per job
MaxInstances == 1

\* ------------------------------------------------------------------ text
Min(a, b) == IF a <= b THEN a ELSE b

Digit(n, p) == 48 + ((n \div p) % 10)

Digits2(n) == <<Digit(n, 10), Digit(n, 1)>>

Digits6(n) ==
    << Digit(n, 100000), Digit(n, 10000), Digit(n, 1000),
       Digit(n, 100), Digit(n, 10), Digit(n, 1) >>

TicksPerDay == 86400 * Resolution

Microsecond(t) == ((t % Resolution) * 1000000) \div Resolution

\* datetime.isoformat() of an aware UTC datetime:
\* "2026-11-DDTHH:MM:SS[.ffffff]+00:00", the fraction only when it is not 0
isoformat(t) ==
    LET secs == (t % TicksPerDay) \div Resolution
        us   == Microsecond(t)
    IN  <<50, 48, 50, 54, 45, 49, 49, 45>> \o Digits2(1 + (t \div TicksPerDay))
        \o <<84>> \o Digits2(secs \div 3600)
        \o <<58>> \o Digits2((secs % 3600) \div 60)
        \o <<58>> \o Digits2((secs % 60))
        \o (IF us = 0 THEN << >> ELSE <<46>> \o Digits6(us))
        \o <<43, 48, 48, 58, 48, 48>>

\* .replace("+00:00", "Z"): the form of the feed's created_at
FeedTime(t) ==
    LET s == isoformat(t) IN SubSeq(s, 1, Len(s) - 6) \o <<90>>

\* (now - timedelta(days=MAX_DAYS)).isoformat() + "Z"
CutoffText(now) == isoformat(now - MAX_DAYS * TicksPerDay) \o <<90>>

\* the order of two TEXT values under SQLite's BINARY collation (memcmp):
\* decided at the first position where they differ, a proper prefix first
TextLess(a, b) ==
    LET n    == Min(Len(a), Len(b))
        diff == {i \in 1 .. n : a[i] # b[i]}
    IN  IF diff = {}
        THEN Len(a) < Len(b)
        ELSE LET i == CHOOSE k \in diff : \A j \in diff : k <= j
             IN  a[i] < b[i]

TextGeq(a, b) == ~TextLess(a, b)

\* SQLite's datetime(created_at): "YYYY-MM-DD HH:MM:SS", the fraction and
\* the zone designator dropped
sql_datetime(s) == SubSeq(s, 1, 10) \o <<32>> \o SubSeq(s, 12, 19)

Num2(s, i) == (s[i] - 48) * 10 + (s[i + 1] - 48)

Num6(s, i) ==
    (s[i] - 48) * 100000 + (s[i + 1] - 48) * 10000 + (s[i + 2] - 48) * 1000
    + (s[i + 3] - 48) * 100 + (s[i + 4] - 48) * 10 + (s[i + 5] - 48)

\* datetime.fromisoformat(row[0].replace("Z", "")): a naive datetime, here
\* its ticks since 2026-11-01T00:00:00
fromisoformat(s) ==
    LET t  == SelectSeq(s, LAMBDA c : c # 90)
        us == IF Len(t) > 19 THEN Num6(t, 21) ELSE 0
    IN  (Num2(t, 9) - 1) * TicksPerDay
        + (Num2(t, 12) * 3600 + Num2(t, 15) * 60 + Num2(t, 18)) * Resolution
        + (us * Resolution + 500000) \div 1000000

VARIABLES
    config,        \* the "repositories" list of config.json
    REPOSITORIES,  \* load_config()'s result (module global, line 59)
    store,         \* table events, in rowid order
    cyc,           \* the poll cycles: the start-up thread and the job's instances
    ticks,         \* timer ticks so far
    delivered,     \* history: ids of the event objects in the 200 responses
    dropped,       \* history: ids whose insert met a storage failure
    escaped,       \* history: exceptions that left a poll cycle
    conflict,      \* history: a duplicate insert carried another payload and repo
    now,           \* the clock, in ticks
    response,      \* the answer of the statistics request, until the client reads it
    skipped,       \* history: timer ticks whose run was skipped
    requested,     \* history: the repositories each cycle has sent a feed request for
    feed,          \* the events the feed holds for each repository, when it is kept fixed
    received,      \* history: the outcome of the most recent feed request
    deliveries,    \* history: the (repository, event) pairs of the 200 responses
    first          \* history: for each id, the repository of the request that first delivered it

vars == <<config, REPOSITORIES, store, cyc, ticks, delivered, dropped, escaped,
          conflict, now, response, skipped, requested, feed, received, deliveries, first>>

\* ---------------------------------------------------------- configuration
Repos == {"o/r", "o/s"}

\* the (repo, event type) pairs of the directly inserted events
StatPairs == {<<"o/r", "PushEvent">>, <<"o/r", "ForkEvent">>, <<"o/s", "PushEvent">>}

RECURSIVE SeqsUpTo(_, _)
SeqsUpTo(S, n) ==
    IF n = 0 THEN {<< >>}
    ELSE LET shorter == SeqsUpTo(S, n - 1)
         IN  shorter \cup {Append(q, x) : q \in shorter, x \in S}

\* the list returned as it was read
load_config_uncapped(repos) == repos

\* repos[:MAX_REPOS] when len(repos) > MAX_REPOS (lines 42-46)
load_config(repos) ==
    IF Len(repos) > MAX_REPOS THEN SubSeq(repos, 1, MAX_REPOS) ELSE repos

\* ------------------------------------------------------------ event store
\* json.dumps(event): every field of the delivered object
dumps(event) == <<event.id, event.type, event.created_at, event.payload>>

\* the record filed under the first configured repository
RowFirstConfigured(event, repo) ==
    [id |-> event.id, repo |-> REPOSITORIES[1], event_type |-> event.type,
     created_at |-> event.created_at, raw_json |-> dumps(event)]

\* the values bound to the INSERT of lines 90-99
Row(event, repo) ==
    [id |-> event.id, repo |-> repo, event_type |-> event.type,
     created_at |-> event.created_at, raw_json |-> dumps(event)]

HasId(s, id) == \E i \in 1 .. Len(s) : s[i].id = id

RowOf(s, id) == s[CHOOSE i \in 1 .. Len(s) : s[i].id = id]

StoredIds(s) == {s[i].id : i \in 1 .. Len(s)}

\* INSERT OR REPLACE instead of INSERT OR IGNORE
insert_or_replace(s, event, repo, db) ==
    IF db # "ok" THEN s
    ELSE Append(SelectSeq(s, LAMBDA r : r.id # event.id), Row(event, repo))

\* a plain INSERT into a table without the primary key
insert_plain(s, event, repo, db) ==
    IF db # "ok" THEN s ELSE Append(s, Row(event, repo))

\* INSERT ... ON CONFLICT (id) DO UPDATE: the stored row overwritten in place
insert_or_update(s, event, repo, db) ==
    IF db # "ok" THEN s
    ELSE IF HasId(s, event.id)
         THEN [i \in 1 .. Len(s) |->
                  IF s[i].id = event.id THEN Row(event, repo) ELSE s[i]]
         ELSE Append(s, Row(event, repo))

\* insert_event, lines 88-114: INSERT OR IGNORE on the primary key id; a
\* sqlite3 error of the statement is caught and logged, the event dropped
insert_event(s, event, repo, db) ==
    IF db # "ok" THEN s
    ELSE IF HasId(s, event.id) THEN s
    ELSE Append(s, Row(event, repo))

\* what the storage layer does on one insert_event call: "connect_error" is
\* sqlite3.connect failing (line 86, outside the try), "operational_error"
\* an error of the INSERT statement (lines 101-108)
DbOutcomes == {"ok", "operational_error", "connect_error"}

\* ------------------------------------------------------------------ feed
\* an element of the decoded body that is no JSON object (a string, a number)
NotADict == [str |-> "message"]

Event(id, t) ==
    [id |-> id, type |-> "PushEvent", created_at |-> FeedTime(t), payload |-> "p"]

\* each id at 00:00:00, and id 1 also with another created_at
FeedEvents == {Event(id, 0) : id \in 1 .. MaxFeedIds} \cup {Event(1, 1)}

\* the decoded arrays: event objects, or event objects and then an element
\* that is no object (what follows it is never reached)
FeedItems ==
    SeqsUpTo(FeedEvents, MaxBatch)
    \cup {Append(q, NotADict) : q \in SeqsUpTo(FeedEvents, MaxBatch - 1)}

\* the outcomes of requests.get(url, timeout=15) and response.json()
\* a response with another status than 200 has a body too, the others of the
\* failures have none that decodes
Responses ==
    [kind : {"timeout", "connection_error", "invalid_json", "json_scalar"},
     items : {<< >>}]
    \cup [kind : {"json_array", "non_200"}, items : FeedItems]
    \cup [kind : {"json_object"}, items : {<<NotADict>>}]

\* the outcomes with response.status_code == 200 and a body that decodes
Status200 == {"json_array", "json_object", "json_scalar"}

\* the outcomes the claims call a failed fetch (lines 158-171)
FailedFetch == {"timeout", "connection_error", "non_200", "invalid_json"}

\* ------------------------------------------------------------ poll cycles
JobSlots == {"job1", "job2"}
Procs == {"thread"} \cup JobSlots

Finished(p) == IF p = "thread" THEN "done" ELSE "idle"

Polling(p) == cyc[p].pc \in {"fetch", "insert"}

\* a skipped run kept and started when the running instance ends
AdvanceQueued(p, i) ==
    IF i > Len(REPOSITORIES) /\ p \in JobSlots /\ skipped > 0
    THEN [pc |-> "fetch", idx |-> 1, events |-> << >>]
    ELSE [pc |-> IF i > Len(REPOSITORIES) THEN Finished(p) ELSE "fetch",
          idx |-> i, events |-> << >>]

\* the for loop of poll_github_events (line 182) moving to repository i
Advance(p, i) ==
    [pc |-> IF i > Len(REPOSITORIES) THEN Finished(p) ELSE "fetch",
     idx |-> i, events |-> << >>]

\* an exception leaves fetch_repo_events and poll_github_events
Escape(c, p) == [c EXCEPT !.pc = Finished(p), !.events = << >>]

DictsOf(items) ==
    {items[i] : i \in {j \in 1 .. Len(items) : items[j] # NotADict}}

DictIds(items) ==
    {items[i].id : i \in {j \in 1 .. Len(items) : items[j] # NotADict}}

\* the body decoded and its events inserted whatever the status code
FetchResultAnyStatus(c, p, resp) ==
    CASE resp.kind \in {"timeout", "connection_error", "invalid_json"}
            -> [next |-> Advance(p, c.idx + 1), exc |-> {}]
      [] resp.kind = "json_scalar"
            -> [next |-> Escape(c, p), exc |-> {"TypeError"}]
      [] OTHER
            -> [next |-> IF resp.items = << >>
                         THEN Advance(p, c.idx + 1)
                         ELSE [c EXCEPT !.pc = "insert", !.events = resp.items],
                exc |-> {}]

\* fetch_repo_events up to the for loop (lines 149-156, 158-171): the
\* cycle's next position, and the exception that escapes, if any
FetchResult(c, p, resp) ==
    CASE resp.kind \in FailedFetch
            -> [next |-> Advance(p, c.idx + 1), exc |-> {}]
      [] resp.kind = "json_scalar"
            -> [next |-> Escape(c, p), exc |-> {"TypeError"}]
      [] OTHER
            -> [next |-> IF resp.items = << >>
                         THEN Advance(p, c.idx + 1)
                         ELSE [c EXCEPT !.pc = "insert", !.events = resp.items],
                exc |-> {}]

\* fetch_repo_events(repo) for the repository cycle p has reached, the
\* request answered with resp
fetch_repo_events(p, resp) ==
    /\ cyc[p].pc = "fetch"
    /\ LET r == FetchResult(cyc[p], p, resp)
       IN  /\ cyc' = [cyc EXCEPT ![p] = r.next]
           /\ escaped' = escaped \cup r.exc
           /\ delivered' = delivered \cup (IF resp.kind \in Status200
                                            THEN DictIds(resp.items) ELSE {})
           /\ received' = resp.kind
    /\ requested' = [requested EXCEPT ![p] = Append(@, REPOSITORIES[cyc[p].idx])]
    /\ UNCHANGED <<feed, skipped, config, REPOSITORIES, store, ticks, dropped, conflict,
                   now, response>>

Fetch(p, resps) ==
    /\ cyc[p].pc = "fetch"
    /\ \E resp \in resps :
          /\ fetch_repo_events(p, resp)
          /\ UNCHANGED <<deliveries, first>>

\* the same, with the history of what was delivered for which repository
FetchTraced(p, resps) ==
    /\ cyc[p].pc = "fetch"
    /\ \E resp \in resps :
          LET repo == REPOSITORIES[cyc[p].idx]
              got  == IF resp.kind \in Status200 THEN DictsOf(resp.items) ELSE {}
          IN  /\ fetch_repo_events(p, resp)
              /\ deliveries' = deliveries \cup {<<repo, e>> : e \in got}
              /\ first' = [id \in DOMAIN first \cup {e.id : e \in got} |->
                              IF id \in DOMAIN first THEN first[id] ELSE repo]

\* the id is stored, with another payload and for another repo
Conflicting(s, event, repo) ==
    /\ HasId(s, event.id)
    /\ RowOf(s, event.id).raw_json # dumps(event)
    /\ RowOf(s, event.id).repo # repo

\* one pass of the loop at lines 156-157: insert_event(event, repo)
Insert(p, dbs) ==
    /\ cyc[p].pc = "insert"
    /\ LET c     == cyc[p]
           event == Head(c.events)
           repo  == REPOSITORIES[c.idx]
           rest  == IF Len(c.events) = 1
                    THEN Advance(p, c.idx + 1)
                    ELSE [c EXCEPT !.events = Tail(c.events)]
       IN  IF event = NotADict
           THEN /\ cyc' = [cyc EXCEPT ![p] = Escape(c, p)]
                /\ escaped' = escaped \cup {"AttributeError"}
                /\ UNCHANGED <<store, conflict, dropped>>
           ELSE \E db \in dbs :
                  IF db = "connect_error"
                  THEN /\ cyc' = [cyc EXCEPT ![p] = Escape(c, p)]
                       /\ escaped' = escaped \cup {"OperationalError"}
                       /\ dropped' = dropped \cup {event.id}
                       /\ UNCHANGED <<store, conflict>>
                  ELSE /\ store' = insert_event(store, event, repo, db)
                       /\ conflict' = (conflict \/ (db = "ok" /\ Conflicting(store, event, repo)))
                       /\ dropped' = IF db = "ok" THEN dropped
                                     ELSE dropped \cup {event.id}
                       /\ cyc' = [cyc EXCEPT ![p] = rest]
                       /\ UNCHANGED escaped
    /\ UNCHANGED <<first, deliveries, received, feed, requested, skipped, config, REPOSITORIES, ticks, delivered, now, response>>

Running == {p \in JobSlots : Polling(p)}

\* a job allowed a second concurrent instance
InstanceLimitTwo == MaxInstances + 1

\* the instances of the job the scheduler lets run at once
InstanceLimit == MaxInstances

\* the interval trigger fires (line 191): the job is submitted unless
\* InstanceLimit instances of it are running, and then the run is skipped
TimerTick ==
    /\ ticks < MaxTicks
    /\ ticks' = ticks + 1
    /\ IF Cardinality(Running) >= InstanceLimit \/ Running = JobSlots
       THEN /\ skipped' = skipped + 1
            /\ UNCHANGED <<cyc, requested>>
       ELSE LET p == IF ~Polling("job1") THEN "job1" ELSE "job2"
            IN  /\ cyc' = [cyc EXCEPT ![p] = Advance(p, 1)]
                /\ requested' = [requested EXCEPT ![p] = << >>]
                /\ UNCHANGED skipped
    /\ UNCHANGED <<first, deliveries, received, feed, config, REPOSITORIES, store, delivered, dropped, escaped,
                   conflict, now, response>>

IdleCycle == [pc |-> "idle", idx |-> 0, events |-> << >>]

\* ------------------------------------------------------- window selector
RECURSIVE InsertSorted(_, _)
\* x placed after every element whose key is not greater: a stable insertion
InsertSorted(sorted, x) ==
    IF sorted = << >> THEN <<x>>
    ELSE IF TextLess(x.key, sorted[Len(sorted)].key)
         THEN Append(InsertSorted(SubSeq(sorted, 1, Len(sorted) - 1), x),
                     sorted[Len(sorted)])
         ELSE Append(sorted, x)

RECURSIVE OrderBy(_)
\* ORDER BY key ASC of rows scanned in rowid order; SQLite's sorter leaves
\* rows of equal key in scan order
OrderBy(keyed) ==
    IF keyed = << >> THEN << >>
    ELSE InsertSorted(OrderBy(SubSeq(keyed, 1, Len(keyed) - 1)), keyed[Len(keyed)])

\* ORDER BY datetime(created_at) ASC (line 131)
OrderKey(row) == sql_datetime(row.created_at)

\* WHERE repo = ? AND event_type = ? AND created_at >= ? (line 130)
Matches(row, repo, event_type, cutoff) ==
    /\ row.repo = repo
    /\ row.event_type = event_type
    /\ TextGeq(row.created_at, cutoff)

\* events[-MAX_EVENTS:] when len(events) > MAX_EVENTS (lines 138-139)
Latest(events) ==
    IF Len(events) > MAX_EVENTS
    THEN SubSeq(events, Len(events) - MAX_EVENTS + 1, Len(events))
    ELSE events

\* the rows fetched by the query of lines 129-133
select_created_at(s, repo, event_type, cutoff) ==
    LET found == SelectSeq(s, LAMBDA r : Matches(r, repo, event_type, cutoff))
        rows  == OrderBy([i \in 1 .. Len(found) |->
                             [key |-> OrderKey(found[i]), row |-> found[i]]])
    IN  [i \in 1 .. Len(rows) |-> rows[i].row]

\* get_recent_events, lines 126-140, called at clock t
get_recent_events(s, repo, event_type, t) ==
    LET rows   == select_created_at(s, repo, event_type, CutoffText(t))
        events == [i \in 1 .. Len(rows) |-> fromisoformat(rows[i].created_at)]
    IN  Latest(events)

\* --------------------------------------------------- interval aggregator
RECURSIVE GCD(_, _)
GCD(a, b) == IF b = 0 THEN a ELSE GCD(b, a % b)

Abs(n) == IF n < 0 THEN 0 - n ELSE n

\* the number n / d (d > 0), in lowest terms
Rational(n, d) ==
    LET g == GCD(Abs(n), d) IN [num |-> n \div g, den |-> d \div g]

\* (b - a).total_seconds() of two datetimes given in ticks
total_seconds(a, b) == Rational(b - a, Resolution)

\* the span divided by the number of events, not of gaps
avg_interval_per_event(event_times) ==
    LET total_diff == total_seconds(event_times[1], event_times[Len(event_times)])
    IN  Rational(total_diff.num, total_diff.den * Len(event_times))

\* lines 235-236: total_diff / (len(event_times) - 1), in seconds
avg_interval(event_times) ==
    LET total_diff == total_seconds(event_times[1], event_times[Len(event_times)])
    IN  Rational(total_diff.num, total_diff.den * (Len(event_times) - 1))

\* ------------------------------------------------------------ statistics
Types == {"PushEvent", "ForkEvent"}

RECURSIVE Distinct(_)
\* SELECT DISTINCT: each value once, in the order of its first row
Distinct(q) ==
    IF q = << >> THEN << >>
    ELSE LET d == Distinct(SubSeq(q, 1, Len(q) - 1))
             x == q[Len(q)]
         IN  IF \E i \in 1 .. Len(d) : d[i] = x THEN d ELSE Append(d, x)

\* the pairs of the configured repositories only
distinct_pairs_configured(s, t) ==
    LET rows == SelectSeq(s, LAMBDA r :
                    /\ TextGeq(r.created_at, CutoffText(t))
                    /\ \E i \in 1 .. Len(REPOSITORIES) : REPOSITORIES[i] = r.repo)
    IN  Distinct([i \in 1 .. Len(rows) |-> <<rows[i].repo, rows[i].event_type>>])

\* SELECT DISTINCT repo, event_type FROM events WHERE created_at >= ?
\* (lines 219-226)
distinct_pairs(s, t) ==
    LET rows == SelectSeq(s, LAMBDA r : TextGeq(r.created_at, CutoffText(t)))
    IN  Distinct([i \in 1 .. Len(rows) |-> <<rows[i].repo, rows[i].event_type>>])

\* fewer events than this give no interval (line 231)
MinEvents == 2

NoResponse ==
    [status |-> 0, results |-> << >>, windows |-> << >>, pairs |-> << >>,
     failed |-> FALSE]

\* return jsonify(results), line 241.  r holds the locals of get_stats
\* (pairs, k, results) and, as history, the window read for each pair
Return(r) ==
    [status |-> 200, results |-> r.results, windows |-> r.windows,
     pairs |-> r.pairs, failed |-> FALSE]

\* a pair with too few events reported as zero instead of skipped
PairResultZero(r, event_times) ==
    LET pair == r.pairs[r.k]
        seen == [r EXCEPT !.k = @ + 1, !.windows = pair :> event_times @@ @]
    IN  IF Len(event_times) < MinEvents
        THEN [seen EXCEPT !.results = pair :> Rational(0, 1) @@ @]
        ELSE [seen EXCEPT !.results = pair :> avg_interval(event_times) @@ @]

\* one pass of the loop at lines 229-239, given the window read
PairResult(r, event_times) ==
    LET pair == r.pairs[r.k]
        seen == [r EXCEPT !.k = @ + 1, !.windows = pair :> event_times @@ @]
    IN  IF Len(event_times) < MinEvents
        THEN seen
        ELSE [seen EXCEPT !.results = pair :> avg_interval(event_times) @@ @]

\* a failed read caught and logged, and the results so far returned
ReadErrorPartial(r) ==
    [status |-> 200, results |-> r.results, windows |-> r.windows,
     pairs |-> r.pairs, failed |-> TRUE]

\* a sqlite3 error in get_stats or get_recent_events is caught nowhere
\* (lines 216-230): it leaves get_stats and the request ends in a server
\* error, the results so far discarded
ReadError(r) ==
    [status |-> 500, results |-> << >>, windows |-> r.windows,
     pairs |-> r.pairs, failed |-> TRUE]

RECURSIVE stats_loop(_, _, _, _)
\* the loop of lines 229-239 from pair r.k on; the read for pair failAt fails
stats_loop(r, s, t, failAt) ==
    IF r.k > Len(r.pairs) THEN Return(r)
    ELSE IF r.k = failAt THEN ReadError(r)
    ELSE LET pair == r.pairs[r.k]
         IN  stats_loop(PairResult(r, get_recent_events(s, pair[1], pair[2], t)),
                        s, t, failAt)

\* get_stats, lines 215-241, at clock t; failAt = 0: the query for the pairs
\* fails, failAt = k: the window query of the k-th pair fails
get_stats(s, t, failAt) ==
    LET begin == [pairs |-> << >>, k |-> 1, results |-> << >>, windows |-> << >>]
    IN  IF failAt = 0 THEN ReadError(begin)
        ELSE stats_loop([begin EXCEPT !.pairs = distinct_pairs(s, t)], s, t, failAt)

\* the reads of a request: none fails (the last value), or the one chosen
FailPoints == 0 .. (Cardinality(StatPairs) + 1)

\* a request that first trims the table to its latest MAX_EVENTS rows
GetStatsTrimming ==
    /\ response = NoResponse
    /\ store' = Latest(store)
    /\ \E failAt \in FailPoints : response' = get_stats(store', now, failAt)
    /\ UNCHANGED <<first, deliveries, received, feed, requested, skipped, config, REPOSITORIES, cyc, ticks, delivered, dropped,
                   escaped, conflict, now>>

\* GET /stats
GetStats ==
    /\ response = NoResponse
    /\ \E failAt \in FailPoints : response' = get_stats(store, now, failAt)
    /\ UNCHANGED <<first, deliveries, received, feed, requested, skipped, config, REPOSITORIES, store, cyc, ticks, delivered, dropped,
                   escaped, conflict, now>>

\* a direct call insert_event(event, repo), as the tests make them
InsertCall ==
    /\ Len(store) < MaxStore
    /\ response = NoResponse
    /\ \E id \in 1 .. (Len(store) + 1), repo \in Repos, type \in Types,
          t \in 0 .. MaxEventTick :
          LET event == [id |-> id, type |-> type, created_at |-> FeedTime(t),
                        payload |-> "p"]
          IN  /\ <<repo, type>> \in StatPairs
              /\ store' = insert_event(store, event, repo, "ok")
              /\ conflict' = (conflict \/ Conflicting(store, event, repo))
    /\ UNCHANGED <<first, deliveries, received, feed, requested, skipped, config, REPOSITORIES, cyc, ticks, delivered, dropped, escaped,
                   now, response>>

\* the client has read the response
Deliver ==
    /\ response # NoResponse
    /\ response' = NoResponse
    /\ UNCHANGED <<first, deliveries, received, feed, requested, skipped, config, REPOSITORIES, store, cyc, ticks, delivered, dropped,
                   escaped, conflict, now>>

\* time passes
ClockTick ==
    /\ now < MAX_DAYS * TicksPerDay + MaxClock
    /\ response = NoResponse
    /\ now' = now + 1
    /\ UNCHANGED <<first, deliveries, received, feed, requested, skipped, config, REPOSITORIES, store, cyc, ticks, delivered, dropped,
                   escaped, conflict, response>>

ConfigLists == {<< >>, <<"o/r">>, <<"o/r", "o/s">>}

\* after lines 245-250: the table exists and is empty, the thread is
\* started, the scheduler runs
Init ==
    /\ config \in ConfigLists
    /\ REPOSITORIES = load_config(config)
    /\ store = << >>
    /\ cyc = [p \in Procs |-> IF p = "thread" THEN Advance(p, 1) ELSE IdleCycle]
    /\ ticks = 0
    /\ delivered = {}
    /\ dropped = {}
    /\ escaped = {}
    /\ conflict = FALSE
    /\ now = MAX_DAYS * TicksPerDay
    /\ response = NoResponse
    /\ skipped = 0
    /\ first = << >>
    /\ deliveries = {}
    /\ received = "none"
    /\ feed = [r \in Repos |-> << >>]
    /\ requested = [p \in Procs |-> << >>]

Next ==
    \/ \E p \in Procs : Fetch(p, Responses)
    \/ \E p \in Procs : Insert(p, {"ok"})
    \/ TimerTick

Spec == Init /\ [][Next]_vars

\* the statistics engine under direct inserts, as in src/test_app.py: no
\* repository is configured, so the poll cycles do nothing
InitStats ==
    /\ Init
    /\ config = << >>

NextStats ==
    \/ InsertCall
    \/ ClockTick
    \/ GetStats
    \/ Deliver

SpecStats == InitStats /\ [][NextStats]_vars

\* the configuration loader and the cycles over its result, with a feed that
\* delivers no event
ResponsesNoEvents == {r \in Responses : r.items = << >>}

InitConfig ==
    /\ config \in SeqsUpTo(Repos, MaxConfig)
    /\ REPOSITORIES = load_config(config)
    /\ store = << >>
    /\ cyc = [p \in Procs |-> IF p = "thread" THEN Advance(p, 1) ELSE IdleCycle]
    /\ ticks = 0
    /\ delivered = {}
    /\ dropped = {}
    /\ escaped = {}
    /\ conflict = FALSE
    /\ now = MAX_DAYS * TicksPerDay
    /\ response = NoResponse
    /\ skipped = 0
    /\ first = << >>
    /\ deliveries = {}
    /\ received = "none"
    /\ feed = [r \in Repos |-> << >>]
    /\ requested = [p \in Procs |-> << >>]

NextConfig ==
    \/ \E p \in Procs : Fetch(p, ResponsesNoEvents)
    \/ TimerTick

SpecConfig == InitConfig /\ [][NextConfig]_vars

\* the poll cycles over a feed whose 200 responses are arrays of event
\* objects, with a storage layer that may fail on any insert_event call
ResponsesWellFormed ==
    {r \in Responses : /\ r.kind \notin {"json_scalar", "json_object"}
                       /\ \A i \in 1 .. Len(r.items) : r.items[i] # NotADict}

NextStorage ==
    \/ \E p \in Procs : Fetch(p, ResponsesWellFormed)
    \/ \E p \in Procs : Insert(p, DbOutcomes)
    \/ TimerTick

SpecStorage == Init /\ [][NextStorage]_vars


\* the whole program: the poll cycles with their inserts, and the
\* statistics requests, in any interleaving
NextAll ==
    \/ \E p \in Procs : Fetch(p, Responses)
    \/ \E p \in Procs : Insert(p, DbOutcomes)
    \/ TimerTick
    \/ ClockTick
    \/ GetStats
    \/ Deliver

SpecAll == Init /\ [][NextAll]_vars

\* the poll cycles with the history of the deliveries, over a storage layer
\* whose INSERT may fail
NextProvenance ==
    \/ \E p \in Procs : FetchTraced(p, Responses)
    \/ \E p \in Procs : Insert(p, {"ok", "operational_error"})
    \/ TimerTick

SpecProvenance == Init /\ [][NextProvenance]_vars

\* the program started on the table an earlier run has left (init_db keeps an
\* existing table, line 69), with any of the configurations; the feed has
\* nothing new, and statistics requests arrive while the cycles run.  The
\* table holds up to MinEvents + 1 records, each at the earliest or the latest
\* created_at of the feed
RECURSIVE StoresOf(_)
StoresOf(n) ==
    IF n = 0 THEN {<< >>}
    ELSE LET shorter == StoresOf(n - 1)
         IN  shorter \cup
             {Append(s, Row([id |-> Len(s) + 1, type |-> q[2],
                             created_at |-> FeedTime(t), payload |-> "p"], q[1])) :
                 s \in {x \in shorter : Len(x) = n - 1},
                 q \in StatPairs, t \in {0, MaxEventTick}}

NothingNew == [kind |-> "json_array", items |-> << >>]

InitRestart ==
    /\ config \in ConfigLists
    /\ REPOSITORIES = load_config(config)
    /\ store \in StoresOf(MinEvents + 1)
    /\ cyc = [p \in Procs |-> IF p = "thread" THEN Advance(p, 1) ELSE IdleCycle]
    /\ ticks = 0
    /\ delivered = {}
    /\ dropped = {}
    /\ escaped = {}
    /\ conflict = FALSE
    /\ now = MAX_DAYS * TicksPerDay
    /\ response = NoResponse
    /\ skipped = 0
    /\ first = << >>
    /\ deliveries = {}
    /\ received = "none"
    /\ feed = [r \in Repos |-> << >>]
    /\ requested = [p \in Procs |-> << >>]

NextRestart ==
    \/ \E p \in Procs : Fetch(p, {NothingNew})
    \/ TimerTick
    \/ GetStats
    \/ Deliver

SpecRestart == InitRestart /\ [][NextRestart]_vars

\* the start-up cycle and the timer-driven cycles over a feed that answers
\* every request for a repository with the same array of events
EventArrays ==
    SeqsUpTo(FeedEvents \cup {Event(MaxFeedIds + 1, 0)}, MaxBatch)

FeedResponse(p) ==
    [kind |-> "json_array", items |-> feed[REPOSITORIES[cyc[p].idx]]]

InitOverlap ==
    /\ config \in ConfigLists
    /\ REPOSITORIES = load_config(config)
    /\ store = << >>
    /\ cyc = [p \in Procs |-> IF p = "thread" THEN Advance(p, 1) ELSE IdleCycle]
    /\ ticks = 0
    /\ delivered = {}
    /\ dropped = {}
    /\ escaped = {}
    /\ conflict = FALSE
    /\ now = MAX_DAYS * TicksPerDay
    /\ response = NoResponse
    /\ skipped = 0
    /\ first = << >>
    /\ deliveries = {}
    /\ received = "none"
    /\ requested = [p \in Procs |-> << >>]
    /\ feed \in [Repos -> EventArrays]

NextOverlap ==
    \/ \E p \in Procs : Fetch(p, {FeedResponse(p)})
    \/ \E p \in Procs : Insert(p, {"ok"})
    \/ TimerTick

SpecOverlap == InitOverlap /\ [][NextOverlap]_vars

\* ================================================================ claims
AllPolling == {p \in Procs : Polling(p)}

\* a step leaves every stored row in place, unchanged
RowsKept ==
    /\ Len(store') >= Len(store)
    /\ \A i \in 1 .. Len(store) : store'[i] = store[i]

UniqueIds ==
    \A i, j \in 1 .. Len(store) : store[i].id = store[j].id => i = j

\* cycle p is at insert_event with an event whose id is already stored
AtDuplicate(p) ==
    /\ cyc[p].pc = "insert"
    /\ Head(cyc[p].events) # NotADict
    /\ HasId(store, Head(cyc[p].events).id)

\* C1: the store holds at most one record per event id, and an insert of an
\* id already stored raises nothing and leaves every stored record as the
\* first insert of its id wrote it, whatever payload or repo it carries.
C1_IdempotentInsert ==
    /\ [](UniqueIds)
    /\ [][RowsKept]_vars
    /\ [][\A p \in Procs :
            (AtDuplicate(p) /\ cyc'[p] # cyc[p])
               => (store' = store /\ escaped' = escaped)]_vars

\* a duplicate insert that carried another payload and another repo was made
C1_Witness ==
    /\ conflict
    /\ Len(store) >= 1

\* C2 as claimed: counting the start-up cycle and the timer-driven cycles,
\* at most one poll cycle is Polling at any time.
C2_AtMostOnePolling == Cardinality(AllPolling) <= 1

\* C2 as amended: at most one timer-driven cycle is Polling at any time; the
\* start-up cycle may run beside it, so at most two cycles run at once.
C2_AtMostOneTimerCycle ==
    /\ Cardinality(Running) <= 1
    /\ Cardinality(AllPolling) <= 2

\* the start-up cycle and a timer-driven cycle are Polling together
C2_Witness == Polling("thread") /\ Polling("job1")

\* cycle p ran its loop to the end
Completed(p) == cyc[p].pc = Finished(p) /\ cyc[p].idx = Len(REPOSITORIES) + 1

\* C3: whatever the outcome of a feed request (timeout, network error,
\* non-2xx status, malformed or non-JSON body), no exception leaves the
\* cycle, every cycle that has stopped has gone through the whole list, and
\* once the cycles have stopped every event delivered in a good response is
\* stored.
C3_FetchNeverRaises ==
    /\ escaped = {}
    /\ \A p \in Procs : (~Polling(p) /\ cyc[p].idx > 0) => Completed(p)
    /\ (AllPolling = {}) => delivered \subseteq StoredIds(store)

\* C11: a storage failure (I/O error, corruption, lock, failure to open the
\* store) on one insert drops only that event: no exception leaves insert or
\* the cycle, every stopped cycle has gone through the whole list, and every
\* delivered event whose insert met no failure is stored once the cycles
\* have stopped.
C11_StorageFailureDropsOnlyEvent ==
    /\ escaped = {}
    /\ \A p \in Procs : (~Polling(p) /\ cyc[p].idx > 0) => Completed(p)
    /\ (AllPolling = {}) => (delivered \ dropped) \subseteq StoredIds(store)

\* cycle p enters its first feed request
CycleStarts(p) ==
    /\ cyc'[p].pc = "fetch" /\ cyc'[p].idx = 1
    /\ ~(cyc[p].pc = "fetch" /\ cyc[p].idx = 1)

\* C12 as claimed: a timer tick that arrives while any poll cycle (the
\* start-up cycle included) is Polling starts no cycle, and a cycle starts
\* only at a tick that arrives when no cycle is Polling.
C12_TickWhilePollingSkipped ==
    [][/\ (ticks' # ticks /\ AllPolling # {}) => cyc' = cyc
       /\ \A p \in JobSlots :
             CycleStarts(p) => (ticks' = ticks + 1 /\ AllPolling = {})]_vars

\* C12 as amended: a timer tick that arrives while a timer-driven cycle is
\* Polling starts no cycle and is not queued: a timer-driven cycle starts
\* only in the step of a tick that arrives when no timer-driven cycle is
\* Polling, so never when the running cycle ends.
C12_TickWhileTimerCycleSkipped ==
    [][/\ (ticks' # ticks /\ Running # {}) => cyc' = cyc
       /\ \A p \in JobSlots :
             CycleStarts(p) => (ticks' = ticks + 1 /\ Running = {})]_vars

\* a tick was skipped, the cycle that was running has ended and none runs
C12_Witness ==
    /\ skipped >= 1
    /\ Completed("job1")
    /\ AllPolling = {}
    /\ Len(REPOSITORIES) > 0

\* C13: a cycle sends its feed requests in configured order, one per
\* repository and none twice, and a cycle that has returned to Idle has sent
\* one for every configured repository, whatever the outcome of each.
C13_EveryRepositoryAttempted ==
    \A p \in Procs :
        /\ Len(requested[p]) <= Len(REPOSITORIES)
        /\ requested[p] = SubSeq(REPOSITORIES, 1, Len(requested[p]))
        /\ (~Polling(p) /\ cyc[p].idx > 0) => requested[p] = REPOSITORIES

\* C15: the store is append-only: in every step of the poll cycles, their
\* inserts and the statistics requests, each stored record is still stored
\* afterwards with the same id, repo, event_type, created_at and payload,
\* and the number of records never decreases.
C15_AppendOnly ==
    [][/\ \A i \in 1 .. Len(store) :
             \E j \in 1 .. Len(store') :
                 /\ store'[j].id = store[i].id
                 /\ store'[j].repo = store[i].repo
                 /\ store'[j].event_type = store[i].event_type
                 /\ store'[j].created_at = store[i].created_at
                 /\ store'[j].raw_json = store[i].raw_json
       /\ Len(store') >= Len(store)]_vars

\* a duplicate insert with another payload and repo was made, an insert met
\* a storage failure and a statistics request was answered: the record is
\* still stored
C15_Witness ==
    /\ conflict
    /\ dropped # {}
    /\ response.status = 200
    /\ Len(store) >= 1

RECURSIVE FeedRows(_)
\* the rows of the events the fixed feed holds, from the i-th configured
\* repository on, in the order a cycle receives them
FeedRows(i) ==
    IF i > Len(REPOSITORIES) THEN << >>
    ELSE LET repo == REPOSITORIES[i]
         IN  [j \in 1 .. Len(feed[repo]) |-> Row(feed[repo][j], repo)]
             \o FeedRows(i + 1)

RECURSIVE FirstOfEachId(_)
\* of the rows of each id, the first
FirstOfEachId(rows) ==
    IF rows = << >> THEN << >>
    ELSE LET front == FirstOfEachId(SubSeq(rows, 1, Len(rows) - 1))
             last  == rows[Len(rows)]
         IN  IF \E i \in 1 .. Len(front) : front[i].id = last.id
             THEN front ELSE Append(front, last)

\* what one cycle alone leaves in an empty store
SingleCycleStore == FirstOfEachId(FeedRows(1))

\* C16: when the start-up cycle and the timer-driven cycles receive the same
\* events, then in every interleaving of their inserts the store never holds
\* two records of one id, at every moment is a prefix of the store one cycle
\* alone produces, and once the cycles have finished equals it: one record
\* for each delivered id, none lost.
C16_OverlapAsSingleCycle ==
    /\ UniqueIds
    /\ Len(store) <= Len(SingleCycleStore)
    /\ store = SubSeq(SingleCycleStore, 1, Len(store))
    /\ (AllPolling = {}) =>
          /\ store = SingleCycleStore
          /\ StoredIds(store) = delivered

\* the timer-driven cycle has finished while the start-up cycle is about to
\* insert its last event, which is already stored
C16_Witness ==
    /\ Completed("job1")
    /\ cyc["thread"].pc = "insert"
    /\ cyc["thread"].idx = Len(REPOSITORIES)
    /\ Len(cyc["thread"].events) = 1
    /\ HasId(store, Head(cyc["thread"].events).id)
    /\ store = SingleCycleStore

ConfiguredRepos == {REPOSITORIES[i] : i \in 1 .. Len(REPOSITORIES)}

\* each stored record has the id, type and created_at of an event delivered
\* in a 200 response to a request for the configured repository it names
FromDelivery ==
    \A i \in 1 .. Len(store) :
        /\ store[i].repo \in ConfiguredRepos
        /\ \E d \in deliveries :
              /\ d[1] = store[i].repo
              /\ d[2].id = store[i].id
              /\ d[2].type = store[i].event_type
              /\ d[2].created_at = store[i].created_at

\* C19: each stored record has the id, type and created_at of an event
\* delivered in a 200 response to a request for a configured repository,
\* and its repo is the repository of the request that first delivered the id.
C19_ProvenanceFirstDelivered ==
    /\ FromDelivery
    /\ \A i \in 1 .. Len(store) :
          /\ store[i].id \in DOMAIN first
          /\ store[i].repo = first[store[i].id]

\* C19 as it holds: the repo of a stored record is the repository of a
\* request that delivered the stored event itself, which need not be the
\* first request that delivered the id.
C19_ProvenanceOfStoredEvent ==
    /\ FromDelivery
    /\ \A i \in 1 .. Len(store) :
          /\ store[i].id \in DOMAIN first
          /\ <<store[i].repo, [id |-> store[i].id, type |-> store[i].event_type,
                               created_at |-> store[i].created_at,
                               payload |-> store[i].raw_json[4]]>> \in deliveries

\* an id was delivered for one repository and then for the other, and the
\* record stored names the second
C19_Witness ==
    /\ Len(store) = 1
    /\ first[store[1].id] # store[1].repo
    /\ \E d \in deliveries : d[1] = first[store[1].id] /\ d[2].id = store[1].id

\* cycle p has sent a feed request and received its outcome
FetchStep(p) == Len(requested'[p]) = Len(requested[p]) + 1

\* C17: a fetch that ends in a network error, a timeout, a status other than
\* 200 or a body that does not decode leaves the store as it was and hands no
\* event to the insert loop: the cycle goes on to the next repository
C17_FailedFetchLeavesStore ==
    [][\A p \in Procs :
          (FetchStep(p) /\ received' \in FailedFetch)
              => /\ store' = store
                 /\ cyc'[p] = Advance(p, cyc[p].idx + 1)]_vars

\* the start-up cycle has stored an event of the first repository, and its
\* request for the second one was answered with another status than 200
C17_Witness ==
    /\ received = "non_200"
    /\ ticks = 0
    /\ Len(store) = 1
    /\ store[1].repo = "o/r"
    /\ requested["thread"] = <<"o/r", "o/s">>
    /\ cyc["thread"] = Advance("thread", 3)

\* ------------------------------------------------ windows and statistics
Cutoff == now - MAX_DAYS * TicksPerDay

Instant(row) == fromisoformat(row.created_at)

\* the stored events of a pair, and those of them within the time bound
PairRows(pair) ==
    SelectSeq(store, LAMBDA r : r.repo = pair[1] /\ r.event_type = pair[2])

InBound(pair) == SelectSeq(PairRows(pair), LAMBDA r : Instant(r) >= Cutoff)

Window(pair) == get_recent_events(store, pair[1], pair[2], now)

Count(q, x) == Cardinality({i \in 1 .. Len(q) : q[i] = x})

Instants(rows) == [i \in 1 .. Len(rows) |-> Instant(rows[i])]

Ascending(w) == \A i \in 1 .. (Len(w) - 1) : w[i] <= w[i + 1]

Increasing(w) == \A i \in 1 .. (Len(w) - 1) : w[i] < w[i + 1]

\* timestamps 0, 300, 600, 900, 1200 seconds after the first, as parsed
\* from the text of the feed
Every300 == [i \in 1 .. 5 |-> fromisoformat(FeedTime((i - 1) * 300 * Resolution))]

\* C4: each reported value is (last - first of the pair's window) in seconds
\* over (window length - 1); it is positive when the window is strictly
\* increasing, and five events 300 s apart give 300.
C4_SpanOverGaps ==
    /\ \A pair \in DOMAIN response.results :
          LET w == response.windows[pair]
              v == response.results[pair]
          IN  /\ Len(w) >= 2
              /\ v.den > 0
              /\ v.num * Resolution * (Len(w) - 1) = (w[Len(w)] - w[1]) * v.den
              /\ Increasing(w) => v.num > 0
    /\ avg_interval(Every300) = [num |-> 300, den |-> 1]

\* a value was reported for a strictly increasing window
C4_Witness ==
    /\ response.status = 200
    /\ \E pair \in DOMAIN response.results :
          /\ Increasing(response.windows[pair])
          /\ response.results[pair].num > 0

\* C5: the result (no insert runs beside the request) has an entry for a
\* pair exactly when the pair's window holds at least 2 events; a pair with
\* 0 or 1 events is absent.
C5_EntryIffTwoEvents ==
    response.status = 200 =>
        \A pair \in StatPairs :
            (pair \in DOMAIN response.results) <=> (Len(Window(pair)) >= 2)

\* one pair is reported and another, with a single event in its window, is not
C5_Witness ==
    /\ response.status = 200
    /\ DOMAIN response.results # {}
    /\ \E pair \in StatPairs :
          /\ pair \in DOMAIN response.windows
          /\ Len(response.windows[pair]) = 1
          /\ pair \notin DOMAIN response.results

\* C6: the window holds no event older than now - MAX_DAYS, and holds every
\* event of the pair within the bound when there are at most MAX_EVENTS.
C6_TimeBound ==
    \A pair \in StatPairs :
        LET w   == Window(pair)
            inb == Instants(InBound(pair))
        IN  /\ \A i \in 1 .. Len(w) : w[i] >= Cutoff
            /\ Len(inb) <= MAX_EVENTS =>
                  \A i \in 1 .. Len(inb) : Count(w, inb[i]) >= Count(inb, inb[i])

\* C7: the window never holds more than MAX_EVENTS; when more events of the
\* pair are within the bound, it holds exactly MAX_EVENTS of them, ascending,
\* and none left out is newer than one returned.
C7_CountBound ==
    \A pair \in StatPairs :
        LET w   == Window(pair)
            inb == Instants(InBound(pair))
        IN  /\ Len(w) <= MAX_EVENTS
            /\ Len(inb) > MAX_EVENTS =>
                  /\ Len(w) = MAX_EVENTS
                  /\ Ascending(w)
                  /\ \A i \in 1 .. Len(w) : Count(w, w[i]) <= Count(inb, w[i])
                  /\ \A i \in 1 .. Len(inb) :
                        Count(w, inb[i]) < Count(inb, inb[i])
                           => \A j \in 1 .. Len(w) : inb[i] <= w[j]

RowId(id) == CHOOSE i \in 1 .. Len(store) : store[i].id = id

\* C8: for any insertion order the query returns the pair's timestamps
\* ascending at their full precision, equal ones in insertion order.
C8_AscendingFullPrecision ==
    \A pair \in StatPairs :
        LET rows == select_created_at(store, pair[1], pair[2], CutoffText(now))
        IN  /\ Ascending(Window(pair))
            /\ \A i, j \in 1 .. Len(rows) :
                  i < j => /\ Instant(rows[i]) <= Instant(rows[j])
                           /\ Instant(rows[i]) = Instant(rows[j])
                                 => RowId(rows[i].id) < RowId(rows[j].id)

\* C14: every value of the result is non-negative, whatever the store holds
\* and in whatever order it was filled, and is zero when all events of the
\* window have the same timestamp.
C14_NonNegative ==
    \A pair \in DOMAIN response.results :
        LET w == response.windows[pair]
        IN  /\ response.results[pair].num >= 0
            /\ (\A i \in 1 .. Len(w) : w[i] = w[1]) => response.results[pair].num = 0

\* a statistics request is answered
StatsRequest == response = NoResponse /\ response' # NoResponse

\* the map the stored records and the clock determine: a value for every pair
\* with at least two events in its window
ResultMap ==
    [pair \in {q \in Repos \X Types : Len(Window(q)) >= 2} |->
        avg_interval(Window(pair))]

\* C18: a statistics request leaves the stored records as they are, whether
\* it returns a result or fails, and the map it returns is the one the store
\* and the clock determine, so that two requests over the same store at the
\* same time return the same map.
C18_StatsReadOnly ==
    [][StatsRequest =>
          /\ store' = store
          /\ response'.status = 200 => response'.results = ResultMap]_vars

\* a request over a full store has returned a value, after the clock has
\* advanced
C18_Witness ==
    /\ response.status = 200
    /\ response.results = ResultMap
    /\ DOMAIN response.results # {}
    /\ Len(store) = MaxStore
    /\ now > MAX_DAYS * TicksPerDay

\* C20: the map a statistics request returns is the one the store and the
\* clock determine, whatever the configured repositories are and whether a
\* cycle is polling or not; a repository that is not configured is reported
\* while its events are in the window.
C20_StatsIgnoreConfigAndCycles ==
    response.status = 200 =>
        /\ response.results = ResultMap
        /\ \A q \in Repos \X Types :
              (Len(Window(q)) >= 2 /\ q[1] \notin ConfiguredRepos)
                  => q \in DOMAIN response.results

\* a value is reported for a repository that is not configured, while the
\* start-up cycle is polling the one that is
C20_Witness ==
    /\ response.status = 200
    /\ REPOSITORIES = <<"o/r">>
    /\ Polling("thread")
    /\ \E q \in DOMAIN response.results : q[1] = "o/s"

\* C9: the loaded list is the prefix of the configured list of length
\* min(len, MAX_REPOS), so no cycle goes through more than MAX_REPOS
\* repositories.
C9_RepositoryCap ==
    /\ REPOSITORIES = SubSeq(config, 1, Min(Len(config), MAX_REPOS))
    /\ \A p \in Procs :
          /\ cyc[p].idx <= MAX_REPOS + 1
          /\ Polling(p) => cyc[p].idx <= MAX_REPOS

\* a list longer than MAX_REPOS was configured and a cycle went through
\* its first MAX_REPOS entries
C9_Witness ==
    /\ Len(config) > MAX_REPOS
    /\ cyc["thread"].pc = "done"
    /\ cyc["thread"].idx = MAX_REPOS + 1

\* C10: a request in which a storage read failed ends in a server error and
\* returns no result map; a result map that is returned was computed with
\* every pair's window read, each value from the window read for its pair.
C10_ReadFailureIsError ==
    /\ response.failed => (response.status = 500 /\ response.results = << >>)
    /\ response.status = 200 =>
          /\ \A i \in 1 .. Len(response.pairs) :
                response.pairs[i] \in DOMAIN response.windows
          /\ \A pair \in DOMAIN response.results :
                /\ pair \in DOMAIN response.windows
                /\ response.results[pair] = avg_interval(response.windows[pair])

\* a read failed after a window of two events had been read
C10_Witness ==
    /\ response.status = 500
    /\ \E pair \in DOMAIN response.windows : Len(response.windows[pair]) >= 2

====
